---- MODULE Spec2Model ----
(***************************************************************************)
(* Torn City bank bot (src/main.py): the credential store kept in          *)
(* data.json, the /key and /bank slash commands with their suspension at   *)
(* the outbound HTTP call, and the deletekey command that main.py only     *)
(* refers to.                                                              *)
(***************************************************************************)
EXTENDS Integers, Sequences, FiniteSets, TLC

VARIABLES
    file,     \* content of data.json
    pc,       \* per invocation: where the handler coroutine stands
    cmd,      \* per invocation: which command it runs
    user_id,  \* per invocation: local user_id = str(interaction.user.id)
    api_key,  \* per invocation: local api_key
    player,   \* per invocation: local player (bank only)
    data,     \* per invocation: local data, the mapping load_data() returned
    calls,    \* per invocation: HTTP GET requests issued
    reads,    \* per invocation: load_data() calls
    writes,   \* per invocation: save_data() calls
    msgs,     \* per invocation: messages delivered to the invoking user
    last      \* the step just taken: its inputs, the store before it, its message

vars == <<file, pc, cmd, user_id, api_key, player, data, calls, reads, writes, msgs, last>>

-----------------------------------------------------------------------------
(* Bounds of the model.                                                    *)

\* Longest generated transaction log (above the cap of 25 shown lines).
MaxLogs == 40

\* Concurrent command invocations (handler coroutines alive at once).
Invocations == {1, 2}

\* Discord user ids (interaction.user.id).
Users == {1, 2}

\* API keys users submit.
ApiKeys == {"k1", "k2"}

-----------------------------------------------------------------------------
(* Program constants.                                                      *)

HttpOk == 200
CutoffDays == 60
MaxShown == 25

Days(n) == n * 86400

\* The clock readings datetime.utcnow() returns: whole seconds and microseconds.
NowSec == Days(20760) + 3600 * 15 + 37
Clock == {[sec |-> NowSec, usec |-> 0], [sec |-> NowSec, usec |-> 250000]}

-----------------------------------------------------------------------------
(* JSON objects are functions from key strings to values.                  *)

EmptyObj == [k \in {} |-> 0]

\* dict.get(key, default)
Get(obj, key, default) == IF key \in DOMAIN obj THEN obj[key] ELSE default

\* dict with obj[key] = value set (assignment to a subscript)
Put(obj, key, value) ==
    [k \in DOMAIN obj \cup {key} |-> IF k = key THEN value ELSE obj[k]]

\* dict with key removed
Del(obj, key) == [k \in DOMAIN obj \ {key} |-> obj[k]]

\* str(interaction.user.id)
str(id) == ToString(id)

-----------------------------------------------------------------------------
(* Titles are character sequences, so that lower() and "in" are computed.  *)

TitleReceived == <<"R", "e", "c", "e", "i", "v", "e", "d", " ", "p", "a", "y", "m", "e", "n", "t">>
TitleJoined == <<"J", "o", "i", "n", "e", "d", " ", "f", "a", "c", "t", "i", "o", "n">>
TitlePaidBounty == <<"P", "a", "i", "d", " ", "b", "o", "u", "n", "t", "y">>
TitleDeposit == <<"D", "E", "P", "O", "S", "I", "T", " ", "m", "a", "d", "e">>
TitleSold == <<"I", "t", "e", "m", " ", "S", "o", "l", "d">>
TitleSent == <<"M", "o", "n", "e", "y", " ", "s", "e", "n", "t">>
TitleWithdraw == <<"B", "a", "n", "k", " ", "w", "i", "t", "h", "d", "r", "a", "w", "a", "l">>
TitleUnpaid == <<"U", "n", "p", "a", "i", "d", " ", "f", "i", "n", "e">>
TitleTravel == <<"T", "r", "a", "v", "e", "l">>

TitlePool == <<TitleReceived, TitleJoined, TitlePaidBounty, TitleDeposit, TitleSold, TitleSent, TitleWithdraw, TitleUnpaid, TitleTravel>>

\* The keyword list of the report filter.
Keywords == <<<<"p", "a", "i", "d">>,
             <<"d", "e", "p", "o", "s", "i", "t">>,
             <<"w", "i", "t", "h", "d", "r", "a", "w">>,
             <<"s", "o", "l", "d">>,
             <<"r", "e", "c", "e", "i", "v", "e", "d">>,
             <<"s", "e", "n", "t">>>>

UpperCase == <<"A", "B", "C", "D", "E", "F", "G", "H", "I", "J", "K", "L", "M", "N", "O", "P", "Q", "R", "S", "T", "U", "V", "W", "X", "Y", "Z">>
LowerCase == <<"a", "b", "c", "d", "e", "f", "g", "h", "i", "j", "k", "l", "m", "n", "o", "p", "q", "r", "s", "t", "u", "v", "w", "x", "y", "z">>

\* str.lower() on one character, then on a title
LowerChar(c) ==
    IF \E k \in 1..Len(UpperCase) : UpperCase[k] = c
    THEN LowerCase[CHOOSE k \in 1..Len(UpperCase) : UpperCase[k] = c]
    ELSE c

lower(title) == [k \in 1..Len(title) |-> LowerChar(title[k])]

\* word in text (substring test)
Contains(text, word) ==
    \E k \in 0..(Len(text) - Len(word)) :
        \A j \in 1..Len(word) : text[k + j] = word[j]

-----------------------------------------------------------------------------
(* Message lines.  A message is the sequence of lines that "\n".join puts  *)
(* together; the emoji that open the source's messages are left out of     *)
(* the texts.                                                              *)

NoTime == [date |-> 0, hour |-> 0, minute |-> 0]

Line(kind, text) == [kind |-> kind, text |-> text, t |-> NoTime, title |-> <<>>]

NoMsg == <<>>

\* datetime.utcfromtimestamp(ts).strftime("%Y-%m-%d %H:%M"): the day (one
\* calendar date per day number), the hour and the minute; seconds are dropped.
strftime(ts) ==
    [date |-> ts \div 86400, hour |-> (ts % 86400) \div 3600, minute |-> (ts % 3600) \div 60]

\* f"* **{t}** -- {entry['title']}"
TxLine(entry) ==
    [kind |-> "tx", text |-> "", t |-> strftime(entry.timestamp), title |-> entry.title]

\* format(net, ",.0f") for an integer net: digits in groups of three
Pad3(m) ==
    IF m < 10 THEN "00" \o ToString(m)
    ELSE IF m < 100 THEN "0" \o ToString(m)
    ELSE ToString(m)

RECURSIVE Group3(_)
Group3(n) ==
    IF n < 1000 THEN ToString(n)
    ELSE Group3(n \div 1000) \o "," \o Pad3(n % 1000)

Money(net) == IF net < 0 THEN "-" \o Group3(0 - net) ELSE Group3(net)

-----------------------------------------------------------------------------
(* Credential store: load_data and save_data on data.json.                 *)

\* A file json.load cannot parse.
Corrupt == [valid |-> FALSE, obj |-> EmptyObj]

\* save_data(data): the file holds the dumped mapping
save_data(d) == [valid |-> TRUE, obj |-> d]

\* load_data with every file taken as unparsable
load_data_always_empty(f) == EmptyObj

\* load_data(): the parsed mapping, or {} when the file does not parse
load_data(f) == IF f.valid THEN f.obj ELSE EmptyObj

-----------------------------------------------------------------------------
(* Remote Data Client: fetch_torn_data.                                    *)

None == [none |-> TRUE, json |-> EmptyObj]

\* fetch_torn_data on the reply the API gives: the body on 200, else None
fetch_torn_data(reply) ==
    IF reply.status = HttpOk THEN [none |-> FALSE, json |-> reply.body] ELSE None

\* "not x" for the value fetch_torn_data returned: None and {} are both falsy
Falsy(x) == x.none \/ DOMAIN x.json = {}

-----------------------------------------------------------------------------
(* What the remote API can answer.                                         *)

ErrorBody == [error |-> [code |-> 2, error |-> "Incorrect key"]]
ErrorBodyNoText == [error |-> [code |-> 2]]

\* Replies to selections=basic
BasicBodies ==
    { [name |-> "Alice", level |-> 7],
      [name |-> "Bob", level |-> 7],
      [level |-> 7],
      EmptyObj,
      ErrorBody,
      ErrorBodyNoText,
      [name |-> "Alice", error |-> [code |-> 16, error |-> "Access level too low"]] }

BasicReplies ==
    {[status |-> HttpOk, body |-> b] : b \in BasicBodies}
        \cup {[status |-> 403, body |-> EmptyObj],
              [status |-> 500, body |-> [name |-> "Alice", level |-> 7]]}

FewBasicReplies ==
    { [status |-> HttpOk, body |-> [name |-> "Alice", level |-> 7]],
      [status |-> HttpOk, body |-> EmptyObj],
      [status |-> HttpOk, body |-> ErrorBody],
      [status |-> HttpOk,
       body |-> [name |-> "Alice", error |-> [code |-> 16, error |-> "Access level too low"]]],
      [status |-> 403, body |-> EmptyObj],
      [status |-> 500, body |-> [name |-> "Alice", level |-> 7]] }

\* The log section is an object of entries; only its values, in their order,
\* are read, so it is the sequence of its entries.
LogEntry(ts, title) == [timestamp |-> ts, title |-> title]

SpecExampleLog ==
    << LogEntry(NowSec - Days(1), TitleReceived),
       LogEntry(NowSec - Days(1), TitleJoined),
       LogEntry(NowSec - Days(90), TitlePaidBounty) >>

BoundaryLog ==
    << LogEntry(NowSec - Days(CutoffDays) - 1, TitleSent),
       LogEntry(NowSec - Days(CutoffDays), TitleSold),
       LogEntry(NowSec, TitleUnpaid),
       LogEntry(NowSec - Days(CutoffDays) + 1, TitleDeposit),
       LogEntry(NowSec - Days(3), TitleTravel) >>

\* A log of n entries whose ages and titles cycle at different rates.
LogGen(n, seed) ==
    [i \in 1..n |->
        LogEntry(NowSec - (((i * seed) % 14) * Days(5) + (i % 3) * 40),
                 TitlePool[(i % Len(TitlePool)) + 1])]

Logs == {<<>>, SpecExampleLog, BoundaryLog, LogGen(MaxLogs, 3), LogGen(MaxLogs, 5)}

NetworthSections ==
    { EmptyObj,
      [total |-> 1234567, pending |-> 0],
      [pending |-> 5],
      [total |-> 0 - 1500] }

\* Replies to selections=log,networth: each section present or missing
BankBodies ==
    { l @@ n :
        l \in {EmptyObj} \cup {"log" :> x : x \in Logs},
        n \in {EmptyObj} \cup {"networth" :> x : x \in NetworthSections} }
    \cup { [server_time |-> NowSec],
           ErrorBody,
           ErrorBodyNoText,
           [error |-> [code |-> 5, error |-> "Too many requests"],
            log |-> SpecExampleLog,
            networth |-> [total |-> 1234567, pending |-> 0]] }

BankReplies ==
    {[status |-> HttpOk, body |-> b] : b \in BankBodies}
        \cup {[status |-> 502, body |-> EmptyObj],
              [status |-> 500, body |-> [log |-> SpecExampleLog, networth |-> [total |-> 7]]]}

FewBankReplies ==
    { [status |-> HttpOk,
       body |-> [log |-> SpecExampleLog, networth |-> [total |-> 1234567, pending |-> 0]]],
      [status |-> HttpOk, body |-> EmptyObj],
      [status |-> HttpOk, body |-> ErrorBody],
      [status |-> 502, body |-> EmptyObj] }

NoReply == [status |-> 0, body |-> EmptyObj]
NoNow == [sec |-> 0, usec |-> 0]

-----------------------------------------------------------------------------
(* /key: key_command.                                                      *)

\* torn_data accepted whenever it is not None
KeyRejectedNoneOnly(torn_data) == torn_data.none

\* not torn_data or "error" in torn_data
KeyRejected(torn_data) == Falsy(torn_data) \/ "error" \in DOMAIN torn_data.json

\* the text of the /key failure message
KeyErrorMsg(torn_data) ==
    LET error_msg ==
            IF ~Falsy(torn_data)
            THEN Get(Get(torn_data.json, "error", EmptyObj), "error",
                     "Invalid or restricted API key.")
            ELSE "Failed to connect to Torn API."
    IN  <<Line("key_error", "API Key Error: " \o error_msg)>>

KeySavedMsg(player_name) ==
    <<Line("key_saved", "Your API key has been saved, **" \o player_name \o "**!")>>

\* the record stored with the two fields swapped
NewRecordSwapped(key, player_name) == [key |-> player_name, player |-> key]

\* {"key": api_key, "player": player_name}
NewRecord(key, player_name) == [key |-> key, player |-> player_name]

\* What a step leaves in last.
Event(i, c, step, uid, key, reply, now, msg) ==
    [inv |-> i, cmd |-> c, step |-> step, user |-> uid, key |-> key,
     status |-> reply.status, body |-> reply.body, now |-> now,
     before |-> file, msg |-> msg]

Idle(i) == pc[i] \in {"idle", "done", "crashed"}

\* key_command up to its await: load_data, then the GET is sent
KeyStart(i, u, k) ==
    /\ Idle(i)
    /\ pc' = [pc EXCEPT ![i] = "key_await"]
    /\ cmd' = [cmd EXCEPT ![i] = "key"]
    /\ data' = [data EXCEPT ![i] = load_data(file)]
    /\ user_id' = [user_id EXCEPT ![i] = str(u)]
    /\ api_key' = [api_key EXCEPT ![i] = k]
    /\ player' = [player EXCEPT ![i] = ""]
    /\ calls' = [calls EXCEPT ![i] = 1]
    /\ reads' = [reads EXCEPT ![i] = 1]
    /\ writes' = [writes EXCEPT ![i] = 0]
    /\ msgs' = [msgs EXCEPT ![i] = 0]
    /\ last' = Event(i, "key", "call", str(u), k, NoReply, NoNow, NoMsg)
    /\ UNCHANGED file

\* key_command from the reply on: reject, or store the record and confirm
KeyResume(i, reply) ==
    /\ pc[i] = "key_await"
    /\ LET torn_data == fetch_torn_data(reply)
           player_name == Get(torn_data.json, "name", "Unknown")
           stored == Put(data[i], user_id[i], NewRecord(api_key[i], player_name))
       IN  IF KeyRejected(torn_data)
           THEN /\ last' = Event(i, "key", "reply", user_id[i], api_key[i], reply, NoNow,
                                 KeyErrorMsg(torn_data))
                /\ UNCHANGED <<file, writes>>
           ELSE /\ file' = save_data(stored)
                /\ writes' = [writes EXCEPT ![i] = @ + 1]
                /\ last' = Event(i, "key", "reply", user_id[i], api_key[i], reply, NoNow,
                                 KeySavedMsg(player_name))
    /\ pc' = [pc EXCEPT ![i] = "done"]
    /\ msgs' = [msgs EXCEPT ![i] = @ + 1]
    /\ data' = [data EXCEPT ![i] = EmptyObj]
    /\ api_key' = [api_key EXCEPT ![i] = ""]
    /\ UNCHANGED <<cmd, user_id, player, calls, reads>>

-----------------------------------------------------------------------------
(* /bank: the report.                                                      *)

MustRegisterMsg ==
    <<Line("must_register", "You must register first using /key <your_torn_api_key>")>>

\* all_data rejected only when it carries an error
BankRejectedErrorOnly(all_data) == "error" \in DOMAIN all_data.json

\* not all_data or "error" in all_data
BankRejected(all_data) == Falsy(all_data) \/ "error" \in DOMAIN all_data.json

\* the text of the /bank failure message
BankErrorMsg(all_data) ==
    LET error_msg ==
            IF ~Falsy(all_data)
            THEN Get(Get(all_data.json, "error", EmptyObj), "error",
                     "Failed to fetch Torn data.")
            ELSE "Failed to connect to Torn API."
    IN  <<Line("bank_error", "Torn API Error: " \o error_msg)>>

\* cutoff = datetime.utcnow() - timedelta(days=60)
Cutoff(now) == [sec |-> now.sec - Days(CutoffDays), usec |-> now.usec]

\* datetime.utcfromtimestamp(ts) >= cutoff; a timestamp has no microseconds
AtOrAfter(ts, cutoff) == ts > cutoff.sec \/ (ts = cutoff.sec /\ 0 >= cutoff.usec)

\* any(word in title.lower() for word in [...])
HasKeyword(title) ==
    \E k \in 1..Len(Keywords) : Contains(lower(title), Keywords[k])

\* the loop that fills filtered
Filter(logs, now) ==
    SelectSeq(logs, LAMBDA e : AtOrAfter(e.timestamp, Cutoff(now)) /\ HasKeyword(e.title))

\* sorted(..., key=timestamp, reverse=True): stable, so entries of equal
\* timestamp keep their order
RECURSIVE InsertNewest(_, _)
InsertNewest(x, s) ==
    IF s = <<>> THEN <<x>>
    ELSE IF Head(s).timestamp <= x.timestamp THEN <<x>> \o s
    ELSE <<Head(s)>> \o InsertNewest(x, Tail(s))

RECURSIVE sorted(_)
sorted(s) == IF s = <<>> THEN <<>> ELSE InsertNewest(Head(s), sorted(Tail(s)))

\* the slice that keeps the oldest entries
TopOldest(s) == SubSeq(s, Len(s) - (IF Len(s) < MaxShown THEN Len(s) ELSE MaxShown) + 1, Len(s))

\* [:25]
Top(s) == SubSeq(s, 1, IF Len(s) < MaxShown THEN Len(s) ELSE MaxShown)

NoTransactionsLine ==
    Line("none", "No relevant money transactions found in the past 2 months.")

\* the transaction part of message_lines
TransactionLines(logs, now) ==
    LET filtered == Filter(logs, now)
        shown == Top(sorted(filtered))
    IN  IF filtered = <<>>
        THEN <<NoTransactionsLine>>
        ELSE [k \in 1..Len(shown) |-> TxLine(shown[k])]

\* the net-worth line on any section, empty or not
NetworthLinesAlways(networth_data) ==
    <<Line("networth", "\nNetworth: $" \o Money(Get(networth_data, "total", 0)))>>

\* if networth_data: append the net-worth line
NetworthLines(networth_data) ==
    IF DOMAIN networth_data # {}
    THEN <<Line("networth", "\nNetworth: $" \o Money(Get(networth_data, "total", 0)))>>
    ELSE <<>>

\* message_lines of a report
Report(name, all_data, now) ==
    LET logs == Get(all_data.json, "log", <<>>)
        networth_data == Get(all_data.json, "networth", EmptyObj)
    IN  <<Line("header", "**" \o name \o "'s Bank Report (Last 2 Months)**"), Line("blank", "")>>
            \o TransactionLines(logs, now)
            \o NetworthLines(networth_data)

\* bank with the registration test left out
BankStartUnchecked(i, u) ==
    /\ Idle(i)
    /\ LET loaded == load_data(file)
           rec == Get(loaded, str(u), NewRecord("", ""))
       IN  /\ pc' = [pc EXCEPT ![i] = "bank_await"]
           /\ api_key' = [api_key EXCEPT ![i] = rec.key]
           /\ player' = [player EXCEPT ![i] = rec.player]
           /\ calls' = [calls EXCEPT ![i] = 1]
           /\ msgs' = [msgs EXCEPT ![i] = 0]
           /\ last' = Event(i, "bank", "call", str(u), rec.key, NoReply, NoNow, NoMsg)
    /\ cmd' = [cmd EXCEPT ![i] = "bank"]
    /\ user_id' = [user_id EXCEPT ![i] = str(u)]
    /\ data' = [data EXCEPT ![i] = EmptyObj]
    /\ reads' = [reads EXCEPT ![i] = 1]
    /\ writes' = [writes EXCEPT ![i] = 0]
    /\ UNCHANGED file

\* bank up to its await: load_data; an unregistered user is answered at once,
\* for a registered one the GET is sent
BankStart(i, u) ==
    /\ Idle(i)
    /\ LET loaded == load_data(file)
       IN  IF str(u) \notin DOMAIN loaded
           THEN /\ pc' = [pc EXCEPT ![i] = "done"]
                /\ api_key' = [api_key EXCEPT ![i] = ""]
                /\ player' = [player EXCEPT ![i] = ""]
                /\ calls' = [calls EXCEPT ![i] = 0]
                /\ msgs' = [msgs EXCEPT ![i] = 1]
                /\ last' = Event(i, "bank", "answer", str(u), "", NoReply, NoNow,
                                 MustRegisterMsg)
           ELSE /\ pc' = [pc EXCEPT ![i] = "bank_await"]
                /\ api_key' = [api_key EXCEPT ![i] = loaded[str(u)].key]
                /\ player' = [player EXCEPT ![i] = loaded[str(u)].player]
                /\ calls' = [calls EXCEPT ![i] = 1]
                /\ msgs' = [msgs EXCEPT ![i] = 0]
                /\ last' = Event(i, "bank", "call", str(u), loaded[str(u)].key, NoReply,
                                 NoNow, NoMsg)
    /\ cmd' = [cmd EXCEPT ![i] = "bank"]
    /\ user_id' = [user_id EXCEPT ![i] = str(u)]
    /\ data' = [data EXCEPT ![i] = EmptyObj]
    /\ reads' = [reads EXCEPT ![i] = 1]
    /\ writes' = [writes EXCEPT ![i] = 0]
    /\ UNCHANGED file

\* bank from the reply on: the failure message, or the report
BankResume(i, reply, now) ==
    /\ pc[i] = "bank_await"
    /\ LET all_data == fetch_torn_data(reply)
       IN  last' = Event(i, "bank", "reply", user_id[i], api_key[i], reply, now,
                         IF BankRejected(all_data)
                         THEN BankErrorMsg(all_data)
                         ELSE Report(player[i], all_data, now))
    /\ pc' = [pc EXCEPT ![i] = "done"]
    /\ msgs' = [msgs EXCEPT ![i] = @ + 1]
    /\ api_key' = [api_key EXCEPT ![i] = ""]
    /\ player' = [player EXCEPT ![i] = ""]
    /\ UNCHANGED <<file, cmd, user_id, data, calls, reads, writes>>

\* session.get raises (no connection, timeout): nothing catches it, the
\* handler ends there
FetchRaises(i) ==
    /\ pc[i] \in {"key_await", "bank_await"}
    /\ pc' = [pc EXCEPT ![i] = "crashed"]
    /\ last' = Event(i, cmd[i], "raise", user_id[i], api_key[i], NoReply, NoNow, NoMsg)
    /\ data' = [data EXCEPT ![i] = EmptyObj]
    /\ api_key' = [api_key EXCEPT ![i] = ""]
    /\ player' = [player EXCEPT ![i] = ""]
    /\ UNCHANGED <<file, cmd, user_id, calls, reads, writes, msgs>>

-----------------------------------------------------------------------------
(* deletekey: main.py line 89 only says the command exists; this is the    *)
(* delete(userId) of the specification's credential store.                 *)

DeletedMsg == <<Line("deleted", "deleted")>>
NotFoundMsg == <<Line("not_found", "not found")>>

deletekey(i, u) ==
    /\ Idle(i)
    /\ LET loaded == load_data(file)
       IN  IF str(u) \in DOMAIN loaded
           THEN /\ file' = save_data(Del(loaded, str(u)))
                /\ writes' = [writes EXCEPT ![i] = 1]
                /\ last' = Event(i, "deletekey", "answer", str(u), "", NoReply, NoNow,
                                 DeletedMsg)
           ELSE /\ UNCHANGED file
                /\ writes' = [writes EXCEPT ![i] = 0]
                /\ last' = Event(i, "deletekey", "answer", str(u), "", NoReply, NoNow,
                                 NotFoundMsg)
    /\ pc' = [pc EXCEPT ![i] = "done"]
    /\ cmd' = [cmd EXCEPT ![i] = "deletekey"]
    /\ user_id' = [user_id EXCEPT ![i] = str(u)]
    /\ api_key' = [api_key EXCEPT ![i] = ""]
    /\ player' = [player EXCEPT ![i] = ""]
    /\ data' = [data EXCEPT ![i] = EmptyObj]
    /\ calls' = [calls EXCEPT ![i] = 0]
    /\ reads' = [reads EXCEPT ![i] = 1]
    /\ msgs' = [msgs EXCEPT ![i] = 1]

-----------------------------------------------------------------------------
(* The bot.                                                                *)

\* Start-up creates data.json holding {} when it is missing; a file left by
\* an earlier run is kept, parsable or not.
Init ==
    /\ file \in {save_data(EmptyObj), Corrupt}
    /\ pc = [i \in Invocations |-> "idle"]
    /\ cmd = [i \in Invocations |-> "none"]
    /\ user_id = [i \in Invocations |-> ""]
    /\ api_key = [i \in Invocations |-> ""]
    /\ player = [i \in Invocations |-> ""]
    /\ data = [i \in Invocations |-> EmptyObj]
    /\ calls = [i \in Invocations |-> 0]
    /\ reads = [i \in Invocations |-> 0]
    /\ writes = [i \in Invocations |-> 0]
    /\ msgs = [i \in Invocations |-> 0]
    /\ last = [inv |-> 0, cmd |-> "none", step |-> "boot", user |-> "", key |-> "",
               status |-> 0, body |-> EmptyObj, now |-> NoNow, before |-> file,
               msg |-> NoMsg]

\* One step of the bot: some invocation in I starts a command for a user in U
\* (with a key in K), or is resumed by a reply (to /key: one in A; to /bank:
\* one in B, at a clock reading in C), or its GET raises.
Step(I, U, K, A, B, C) ==
    \/ \E i \in I, u \in U, k \in K : KeyStart(i, u, k)
    \/ \E i \in I, reply \in A : KeyResume(i, reply)
    \/ \E i \in I, u \in U : BankStart(i, u)
    \/ \E i \in I, reply \in B, now \in C : BankResume(i, reply, now)
    \/ \E i \in I : FetchRaises(i)
    \/ \E i \in I, u \in U : deletekey(i, u)

\* Commands of all users interleaved, over a few replies of each kind.
Next ==
    Step(Invocations, Users, ApiKeys, FewBasicReplies, FewBankReplies,
         {[sec |-> NowSec, usec |-> 0]})

Spec == Init /\ [][Next]_vars

\* Commands one after the other, over every reply and clock reading.
NextSeq == Step({1}, Users, ApiKeys, BasicReplies, BankReplies, Clock)

SeqSpec == Init /\ [][NextSeq]_vars

-----------------------------------------------------------------------------
(* Properties.  They read the step just taken from last, and the store     *)
(* from the file itself.                                                   *)

\* The mapping a file holds (an unparsable file holds none).
Entries(f) == IF f.valid THEN f.obj ELSE EmptyObj

StoreBefore == Entries(last.before)
StoreAfter == Entries(file)

KeyReplied == last.cmd = "key" /\ last.step = "reply"
BankReplied == last.cmd = "bank" /\ last.step = "reply"
BankStarted == last.cmd = "bank" /\ last.step \in {"answer", "call"}

HasError(body) == "error" \in DOMAIN body

Kinds(msg) == {msg[k].kind : k \in DOMAIN msg}

\* C1: a /key whose validation fails (a status other than 200, or a body with
\* an error field) leaves data.json as it was, for every user and content, and
\* answers with the one error message.
C1_FailedRegisterKeepsStore ==
    (KeyReplied /\ (last.status # 200 \/ HasError(last.body)))
        => /\ file = last.before
           /\ Len(last.msg) = 1
           /\ last.msg[1].kind = "key_error"
           /\ msgs[last.inv] = 1

\* C1 witness: a validation answered 200 with an error field, while the store
\* held both users' entries.
C1_Witness ==
    /\ KeyReplied
    /\ last.status = 200
    /\ HasError(last.body)
    /\ DOMAIN StoreBefore = {"1", "2"}
    /\ file = last.before

ClaimKeywords ==
    { <<"p", "a", "i", "d">>, <<"d", "e", "p", "o", "s", "i", "t">>,
      <<"w", "i", "t", "h", "d", "r", "a", "w">>, <<"s", "o", "l", "d">>,
      <<"r", "e", "c", "e", "i", "v", "e", "d">>, <<"s", "e", "n", "t">> }

\* entry e is at or after now minus 60 days and its lower-cased title holds a keyword
Matches(e, now) ==
    /\ e.timestamp + 60 * 86400 >= now.sec + (IF now.usec > 0 THEN 1 ELSE 0)
    /\ \E w \in ClaimKeywords : Contains(lower(e.title), w)

Count(seq, v) == Cardinality({k \in DOMAIN seq : seq[k] = v})

ReportProduced == BankReplied /\ "header" \in Kinds(last.msg)

\* C3: the transaction lines of a report are the matching entries, newest
\* first, at most 25, the newest ones; no entry is listed more often than the
\* log holds it; the "no transactions" line stands in exactly when nothing
\* matches; of the specification's three entries only "Received payment" is listed.
C3_ReportLines ==
    ReportProduced =>
        LET logs == Get(last.body, "log", <<>>)
            now == last.now
            matching == {k \in DOMAIN logs : Matches(logs[k], now)}
            shown == Top(sorted(Filter(logs, now)))
            tx == SelectSeq(last.msg, LAMBDA l : l.kind = "tx")
        IN  /\ Len(tx) = Len(shown)
            /\ \A p \in DOMAIN tx :
                 /\ tx[p].title = shown[p].title
                 /\ tx[p].t.date * 1440 + tx[p].t.hour * 60 + tx[p].t.minute
                        = shown[p].timestamp \div 60
            /\ Len(shown) = (IF Cardinality(matching) < 25 THEN Cardinality(matching) ELSE 25)
            /\ \A p \in DOMAIN shown :
                 /\ Matches(shown[p], now)
                 /\ Count(shown, shown[p]) <= Count(logs, shown[p])
            /\ \A p, q \in DOMAIN shown : p < q => shown[p].timestamp >= shown[q].timestamp
            /\ \A k \in matching :
                 Count(shown, logs[k]) < Count(logs, logs[k])
                     => \A p \in DOMAIN shown : shown[p].timestamp >= logs[k].timestamp
            /\ ("none" \in Kinds(last.msg)) <=> (matching = {})
            /\ logs = SpecExampleLog
                 => /\ Len(tx) = 1
                    /\ tx[1].title = TitleReceived

\* C3 witness: a report on a log with more than 25 matching entries, some
\* entries too old and some without a keyword: 25 lines are shown.
C3_Witness ==
    /\ ReportProduced
    /\ LET logs == Get(last.body, "log", <<>>)
           tx == SelectSeq(last.msg, LAMBDA l : l.kind = "tx")
       IN  /\ Cardinality({k \in DOMAIN logs : Matches(logs[k], last.now)}) > 25
           /\ \E k \in DOMAIN logs : logs[k].timestamp + 60 * 86400 < last.now.sec
           /\ \E k \in DOMAIN logs : logs[k].title = TitleJoined
           /\ Len(tx) = 25

\* C4: a /bank of a user without an entry sends no request: it ends at once
\* with the registration-required message.
C4_UnregisteredNoCall ==
    (BankStarted /\ last.user \notin DOMAIN StoreBefore)
        => /\ pc[last.inv] = "done"
           /\ calls[last.inv] = 0
           /\ last.msg = MustRegisterMsg
           /\ msgs[last.inv] = 1

\* C4 witness: such a /bank while the other user is registered.
C4_Witness ==
    /\ BankStarted
    /\ last.user \notin DOMAIN StoreBefore
    /\ StoreBefore # EmptyObj
    /\ calls[last.inv] = 0
    /\ last.msg = MustRegisterMsg

\* C5 as stated: a 200 reply without error field and without log key, empty or
\* not, yields a report with the "no transactions" line and no error message.
C5_NoLogKeyGivesReport ==
    (BankReplied /\ last.status = 200 /\ ~HasError(last.body) /\ "log" \notin DOMAIN last.body)
        => /\ "none" \in Kinds(last.msg)
           /\ "bank_error" \notin Kinds(last.msg)

C7_FailedFetchNoReport ==
    (BankReplied /\ (last.status # 200 \/ HasError(last.body)))
        => /\ Len(last.msg) = 1
           /\ Kinds(last.msg) = {"bank_error"}

\* C7 witness: a 200 reply with an error field next to a log and a net worth.
C7_Witness ==
    /\ BankReplied
    /\ last.status = 200
    /\ HasError(last.body)
    /\ "log" \in DOMAIN last.body
    /\ "networth" \in DOMAIN last.body
    /\ Kinds(last.msg) = {"bank_error"}

NetworthShown == SelectSeq(last.msg, LAMBDA l : l.kind = "networth")

\* C8 as stated: the net-worth line is there exactly when the net-worth
\* section carries a total, and shows it.
C8_LineIffTotal ==
    ReportProduced =>
        LET section == Get(last.body, "networth", EmptyObj)
        IN  /\ (NetworthShown # <<>>) <=> ("total" \in DOMAIN section)
            /\ NetworthShown # <<>>
                 => NetworthShown = <<Line("networth", "\nNetworth: $" \o Money(section.total))>>

\* C8 amended: the net-worth line is there exactly when the net-worth section
\* is present and not empty; it shows the section's total, and 0 when the
\* section has none.
C8_LineIffSection ==
    ReportProduced =>
        LET section == Get(last.body, "networth", EmptyObj)
            total == IF "total" \in DOMAIN section THEN section.total ELSE 0
        IN  /\ (NetworthShown # <<>>) <=> (DOMAIN section # {})
            /\ Len(NetworthShown) <= 1
            /\ NetworthShown # <<>>
                 => /\ NetworthShown[1].text = "\nNetworth: $" \o Money(total)
                    /\ last.msg[Len(last.msg)] = NetworthShown[1]
            /\ total = 1234567 /\ NetworthShown # <<>>
                 => NetworthShown[1].text = "\nNetworth: $1,234,567"
            /\ total = 0 - 1500 /\ NetworthShown # <<>>
                 => NetworthShown[1].text = "\nNetworth: $-1,500"

\* C8 witness: a report whose reply carried a total.
C8_Witness ==
    /\ ReportProduced
    /\ "networth" \in DOMAIN last.body
    /\ "total" \in DOMAIN last.body.networth
    /\ last.msg[Len(last.msg)].text = "\nNetworth: $1,234,567"

\* C9 as stated: a /key or /bank that has ended sent at most one request, read
\* the store once and delivered exactly one message; /bank wrote nothing and
\* /key wrote at most once.
C9_OneCallOneMessage ==
    \A i \in Invocations :
        (pc[i] \in {"done", "crashed"} /\ cmd[i] \in {"key", "bank"})
            => /\ calls[i] <= 1
               /\ reads[i] = 1
               /\ msgs[i] = 1
               /\ writes[i] <= 1
               /\ cmd[i] = "bank" => writes[i] = 0

\* C10 as stated: a successful registration changes the invoking user's entry
\* only, under every interleaving.
C10_RegisterTouchesOwnEntryOnly ==
    (KeyReplied /\ Kinds(last.msg) = {"key_saved"})
        => \A k \in (DOMAIN StoreBefore \cup DOMAIN StoreAfter) \ {last.user} :
             /\ k \in DOMAIN StoreBefore
             /\ k \in DOMAIN StoreAfter
             /\ StoreAfter[k] = StoreBefore[k]
====
